---- MODULE Spec2Model ----
(***************************************************************************)
(* Model of the portfolio analysis engine of ai-stock-portfolio-manager:   *)
(* PortfolioAnalyzer (portfolio_analyzer.py), the DataCollector calls it   *)
(* makes (data_collector.py) and the daily run that drives them            *)
(* (portfolio_ai_workflow.py).                                             *)
(*                                                                         *)
(* Numbers.  Python/numpy floats are modelled by records                   *)
(*   [k |-> kind, n |-> numerator, d |-> denominator]                      *)
(* with kind "num" (the exact rational n/d, d > 0), "nan", "inf", "-inf",  *)
(* "pos"/"neg" (a finite positive/negative value whose magnitude needs a   *)
(* real power or square root and is not computed), and "none" (Python's    *)
(* None).  Arithmetic on "num" is exact; float rounding error is not       *)
(* modelled except where noted.                                            *)
(***************************************************************************)
EXTENDS Integers, Sequences, FiniteSets, TLC

VARIABLES portfolio, nifty_data, stock_data, pc, performance, contributions,
          suggestions, error, ticker_data, run_history, last_run, returned,
          start_time

vars == <<portfolio, nifty_data, stock_data, pc, performance, contributions,
          suggestions, error, ticker_data, run_history, last_run, returned,
          start_time>>

(***************************************************************************)
(* Bounds of the model.                                                    *)
(***************************************************************************)
MaxQty == 2
MaxPrice == 2
MaxDate == 2
MaxBench == 2

Symbols == {"A", "B"}

(***************************************************************************)
(* Float values.                                                           *)
(***************************************************************************)
Num(n, d) == [k |-> "num", n |-> n, d |-> d]
NaN == [k |-> "nan", n |-> 0, d |-> 1]
Inf == [k |-> "inf", n |-> 0, d |-> 1]
NegInf == [k |-> "-inf", n |-> 0, d |-> 1]
Pos == [k |-> "pos", n |-> 0, d |-> 1]
Neg == [k |-> "neg", n |-> 0, d |-> 1]
None == [k |-> "none", n |-> 0, d |-> 1]

IsNum(x) == x.k = "num"
Zero == Num(0, 1)

\* exact comparisons of two "num" values (denominators are positive)
NumLt(a, b) == a.n * b.d < b.n * a.d
NumEq(a, b) == a.n * b.d = b.n * a.d
NumGt(a, b) == NumLt(b, a)
NumMul(a, b) == Num(a.n * b.n, a.d * b.d)
NumSub(a, b) == Num(a.n * b.d - b.n * a.d, a.d * b.d)

\* sign of a float: -1, 0, 1; 2 for nan/none
Sign(x) ==
  CASE x.k = "num" -> (IF x.n > 0 THEN 1 ELSE IF x.n < 0 THEN -1 ELSE 0)
    [] x.k \in {"inf", "pos"} -> 1
    [] x.k \in {"-inf", "neg"} -> -1
    [] OTHER -> 2

\* x / y - 1 for non-negative integers x, y in float arithmetic:
\* 0/0 is nan and x/0 is inf (numpy and pandas warn, they do not raise)
RatioMinusOne(x, y) ==
  IF y = 0 THEN (IF x = 0 THEN NaN ELSE Inf) ELSE Num(x - y, y)

Min2(a, b) == IF a < b THEN a ELSE b

(***************************************************************************)
(* Price series: a sequence of [date, close] rows with strictly increasing *)
(* dates (the index of the history frame) and positive closes.             *)
(***************************************************************************)
IsSeries(h) == \A i \in 1..(Len(h) - 1) : h[i].date < h[i + 1].date

Rows(dates, prices) == [date : dates, close : prices]

\* all series over the given dates and prices with at most maxLen rows
SeriesOver(dates, prices, maxLen) ==
  { h \in UNION { [1..n -> Rows(dates, prices)] : n \in 0..maxLen } : IsSeries(h) }

Dates(h) == { h[i].date : i \in 1..Len(h) }
RowOf(h, date) == CHOOSE i \in 1..Len(h) : h[i].date = date

\* the price mapping is an ordered dict: a sequence of [symbol, hist] entries
Keys(m) == { m[i].symbol : i \in 1..Len(m) }
Entry(m, symbol) == m[CHOOSE i \in 1..Len(m) : m[i].symbol = symbol]

(***************************************************************************)
(* The portfolio definition loaded by DataCollector._load_portfolio:       *)
(*   stocks    : the list of symbols whose prices are fetched,             *)
(*   holdings  : ordered dict symbol -> quantity, as [symbol, quantity],   *)
(*   avg_costs : dict symbol -> average buy price, as [symbol, cost].      *)
(***************************************************************************)
AvgCost(p, symbol) ==
  IF \E i \in 1..Len(p.avg_costs) : p.avg_costs[i].symbol = symbol
    THEN Num(Entry(p.avg_costs, symbol).cost, 1)
    ELSE None

(***************************************************************************)
(* PortfolioAnalyzer.calculate_portfolio_performance                       *)
(***************************************************************************)
\* lines 39-43: the value of the portfolio on one date, summed over the
\* holdings that are in the price mapping and have a row on that date
RECURSIVE DailyValue(_, _, _, _)
DailyValue(holdings, sd, date, i) ==
  IF i > Len(holdings) THEN 0
  ELSE LET symbol == holdings[i].symbol
           quantity == holdings[i].quantity
           quoted == /\ symbol \in Keys(sd)
                     /\ date \in Dates(Entry(sd, symbol).hist)
           hist == Entry(sd, symbol).hist
       IN  (IF quoted THEN hist[RowOf(hist, date)].close * quantity ELSE 0)
             + DailyValue(holdings, sd, date, i + 1)

\* a variant of PortfolioValueHistory with one row per date of any series
\* of the mapping
PortfolioValueHistoryAllDates(p, sd) ==
  LET dates == UNION { Dates(sd[i].hist) : i \in 1..Len(sd) }
  IN  [t \in 1..Cardinality(dates) |->
         LET date == CHOOSE d \in dates : Cardinality({ e \in dates : e < d }) = t - 1
         IN  [date |-> date, value |-> DailyValue(p.holdings, sd, date, 1)]]

\* lines 34-48: one row per date of the first series of the mapping
PortfolioValueHistory(p, sd) ==
  LET first_stock == sd[1].hist
  IN  [t \in 1..Len(first_stock) |->
         [date |-> first_stock[t].date,
          value |-> DailyValue(p.holdings, sd, first_stock[t].date, 1)]]

\* line 55, Series.pct_change: no return on the first row
PctChange(history, t) ==
  IF t = 1 THEN NaN ELSE RatioMinusOne(history[t].value, history[t - 1].value)

\* lines 51-59: the performance frame
PerformanceDf(p, sd) ==
  LET history == PortfolioValueHistory(p, sd)
      initial_value == history[1].value
  IN  [t \in 1..Len(history) |->
         [date |-> history[t].date,
          value |-> history[t].value,
          daily_return |-> PctChange(history, t),
          cumulative_return |-> RatioMinusOne(history[t].value, initial_value)]]

\* line 63: (1 + total_return) ** (365 / N) - 1.  Exact where the power is
\* rational (total return 0 or -1, or N = 365); otherwise only its sign.
AnnualizedReturn(total_return, N) ==
  CASE total_return.k # "num" -> total_return
    [] total_return.n = 0 -> Zero
    [] total_return.n = -total_return.d -> Num(-1, 1)
    [] N = 365 -> total_return
    [] total_return.n > 0 -> Pos
    [] OTHER -> Neg

\* line 64: Series.std() (sample deviation, NaN rows skipped) * sqrt(252).
\* Fewer than two returns, or an infinite return, give nan.  Returns that are
\* all 0.0 give exactly 0.0.  Equal non-zero returns give 0.0 or a tiny
\* positive value depending on the rounding of their mean.
VolatilityOutcomes(df) ==
  LET defined == { t \in 1..Len(df) : df[t].daily_return.k # "nan" }
      finite == \A t \in defined : IsNum(df[t].daily_return)
      equal == \A t, u \in defined : NumEq(df[t].daily_return, df[u].daily_return)
      allZero == \A t \in defined : df[t].daily_return.n = 0
  IN  IF Cardinality(defined) < 2 \/ ~finite THEN {NaN}
      ELSE IF allZero THEN {Zero}
      ELSE IF equal THEN {Zero, Pos}
      ELSE {Pos}

\* the finite non-zero values a Sharpe ratio is sampled from
SharpeSamples == {Num(-1, 1), Num(1, 4), Num(1, 2), Num(1, 1)}

\* line 65: annualized_return / volatility on numpy floats: x/0.0 is +-inf,
\* 0.0/0.0 is nan, and nothing is raised.  A finite quotient of abstracted
\* operands is any sample of the right sign.
SharpeOutcomes(annualized_return, volatility) ==
  LET sa == Sign(annualized_return)
  IN  IF sa = 2 \/ volatility.k = "nan" THEN {NaN}
      ELSE IF Sign(volatility) = 0
        THEN (IF sa = 0 THEN {NaN} ELSE IF sa > 0 THEN {Inf} ELSE {NegInf})
      ELSE IF annualized_return.k = "inf" THEN {Inf}
      ELSE IF sa = 0 THEN {Zero}
      ELSE { s \in SharpeSamples : Sign(s) = sa }

\* lines 85-87 on a series of non-negative values: row t is value / running
\* maximum - 1 (nan while the running maximum is 0); min() skips nan rows
CumMax(df, t) ==
  LET S == { df[u].value : u \in 1..t } IN CHOOSE m \in S : \A v \in S : v <= m

\* a variant of Drawdown: the distance to the running maximum in money
\* (value - roll_max) instead of the ratio
DrawdownAbsolute(df, t) == Num(df[t].value - CumMax(df, t), 1)

Drawdown(df, t) == RatioMinusOne(df[t].value, CumMax(df, t))

CalculateMaxDrawdown(df) ==
  LET defined == { t \in 1..Len(df) : IsNum(Drawdown(df, t)) }
  IN  IF defined = {} THEN NaN
      ELSE Drawdown(df, CHOOSE t \in defined :
                          \A u \in defined : ~NumLt(Drawdown(df, u), Drawdown(df, t)))

\* lines 62-73
PerformanceMetrics(df, volatility, sharpe_ratio) ==
  LET total_return == df[Len(df)].cumulative_return
  IN  [total_return |-> total_return,
       annualized_return |-> AnnualizedReturn(total_return, Len(df)),
       volatility |-> volatility,
       sharpe_ratio |-> sharpe_ratio,
       max_drawdown |-> CalculateMaxDrawdown(df)]

\* the exception calculate_portfolio_performance ends with, or "none":
\* line 34 indexes the first element of an empty list (IndexError); with a
\* first series without rows the frame of line 51 has no "date" column and
\* set_index raises KeyError (line 52)
PerformanceError(sd) ==
  IF Len(sd) = 0 THEN "IndexError"
  ELSE IF Len(sd[1].hist) = 0 THEN "KeyError"
  ELSE "none"

NoPerformance == [df |-> <<>>, metrics |-> [total_return |-> None,
                  annualized_return |-> None, volatility |-> None,
                  sharpe_ratio |-> None, max_drawdown |-> None]]

(***************************************************************************)
(* PortfolioAnalyzer.analyze_stock_contributions                           *)
(***************************************************************************)
\* round(x, 2) of the rational n/d (d > 0), in hundredths: the nearest
\* hundredth, a tie going to the even one
Round2(x) ==
  LET q == (100 * x.n) \div x.d
      r == 100 * x.n - q * x.d
  IN  Num(IF 2 * r < x.d THEN q
          ELSE IF 2 * r > x.d THEN q + 1
          ELSE IF q % 2 = 0 THEN q ELSE q + 1, 100)

\* a variant of Priced that stops at the first holding without an entry in the
\* price mapping instead of skipping it (break for continue)
PricedUntilAbsent(holdings, sd) ==
  LET absent == { i \in 1..Len(holdings) : holdings[i].symbol \notin Keys(sd) }
  IN  IF absent = {} THEN holdings
      ELSE SubSeq(holdings, 1, (CHOOSE i \in absent : \A j \in absent : i <= j) - 1)

\* line 108, 115: the holdings that have an entry in the price mapping
Priced(holdings, sd) == SelectSeq(holdings, LAMBDA h : h.symbol \in Keys(sd))

\* lines 106-112: the sum of average cost * quantity over the priced holdings
RECURSIVE TotalInvestment(_, _, _)
TotalInvestment(p, priced, i) ==
  IF i > Len(priced) THEN 0
  ELSE AvgCost(p, priced[i].symbol).n * priced[i].quantity
         + TotalInvestment(p, priced, i + 1)

\* line 131
Weight(current_value, total_investment) ==
  IF total_investment = 0
    THEN (IF current_value = 0 THEN NaN ELSE Inf)
    ELSE Num(current_value, total_investment)

\* line 147: the least number of aligned returns, exclusive
MinSamples == 30

\* lines 142-146: the dates on which both return series have a row; the
\* first row of a series has no return and dropna() removes it
ReturnDates(h) == IF Len(h) = 0 THEN {} ELSE Dates(h) \ {h[1].date}
AlignedCount(hist, nifty_hist) ==
  Cardinality(ReturnDates(hist) \cap ReturnDates(nifty_hist))

\* the values a Pearson correlation is sampled from (nan: a constant series)
CorrSamples == {Num(-50, 100), Zero, Num(50, 100), Num(60, 100), NaN}

\* line 147: enough data points
EnoughSamples(n) == n > MinSamples

\* lines 141-155
CorrelationOutcomes(hist, nifty) ==
  IF nifty.isNone THEN {None}
  ELSE IF EnoughSamples(AlignedCount(hist, nifty.hist)) THEN CorrSamples
  ELSE {None}

\* line 149: correlation * (a finite positive ratio of deviations)
Beta(correlation) ==
  CASE correlation.k = "none" -> None
    [] correlation.k = "nan" -> NaN
    [] correlation.n = 0 -> Zero
    [] correlation.n > 0 -> Pos
    [] OTHER -> Neg

\* lines 117-172 for one priced holding
Contribution(p, sd, h, total_investment, correlation) ==
  LET hist == Entry(sd, h.symbol).hist
      latest_price == hist[Len(hist)].close
      avg_buy_price == AvgCost(p, h.symbol).n
      current_value == latest_price * h.quantity
      weight == Weight(current_value, total_investment)
      stock_return == Num(latest_price - avg_buy_price, avg_buy_price)
      contribution_to_return ==
        IF IsNum(weight) THEN Round2(NumMul(stock_return, weight)) ELSE weight
  IN  [symbol |-> h.symbol,
       quantity |-> h.quantity,
       current_price |-> Round2(Num(latest_price, 1)),
       current_value |-> Round2(Num(current_value, 1)),
       weight |-> weight,
       return |-> Round2(stock_return),
       contribution_to_return |-> contribution_to_return,
       correlation_to_market |-> correlation,
       beta |-> Beta(correlation),
       financial_metrics |-> "info"]

\* the correlations the run may compute, one per priced holding in order
RECURSIVE CorrelationChoices(_, _, _, _)
CorrelationChoices(priced, sd, nifty, i) ==
  IF i > Len(priced) THEN { <<>> }
  ELSE { <<c>> \o rest :
           c \in CorrelationOutcomes(Entry(sd, priced[i].symbol).hist, nifty),
           rest \in CorrelationChoices(priced, sd, nifty, i + 1) }

\* the returned mapping, in ledger order; corr[i] is the correlation computed
\* for the i-th priced holding
Contributions(p, sd, corr) ==
  LET priced == Priced(p.holdings, sd)
      total_investment == TotalInvestment(p, priced, 1)
  IN  [i \in 1..Len(priced) |->
         Contribution(p, sd, priced[i], total_investment, corr[i])]

\* the exception analyze_stock_contributions ends with, or "none".  For the
\* first priced holding line 110 subscripts the portfolio definition with
\* "avg_costs" (KeyError when it has no such field); line 111 multiplies None
\* when a priced holding has no average cost (TypeError); in ledger order, line 117 indexes the last row of a series
\* without rows (IndexError) and line 159 lets an exception of the
\* financial-metrics fetch through (fetch_financial_metrics has no handler).
RECURSIVE ContributionLoopError(_, _, _, _)
ContributionLoopError(priced, sd, failing, i) ==
  IF i > Len(priced) THEN "none"
  ELSE IF Len(Entry(sd, priced[i].symbol).hist) = 0 THEN "IndexError"
  ELSE IF priced[i].symbol \in failing THEN "FetchError"
  ELSE ContributionLoopError(priced, sd, failing, i + 1)

ContributionError(p, sd, failing) ==
  LET priced == Priced(p.holdings, sd)
  IN  IF Len(priced) > 0 /\ "avg_costs" \notin DOMAIN p THEN "KeyError"
      ELSE IF \E i \in 1..Len(priced) : AvgCost(p, priced[i].symbol).k = "none"
        THEN "TypeError"
        ELSE ContributionLoopError(priced, sd, failing, 1)

(***************************************************************************)
(* PortfolioAnalyzer.generate_optimization_suggestions                     *)
(***************************************************************************)
\* x < y for a float x and a finite y; any comparison with nan is false
FloatLt(x, y) ==
  CASE x.k = "num" -> NumLt(x, y)
    [] x.k = "-inf" -> TRUE
    [] OTHER -> FALSE

\* x > y for a float x and a finite y
FloatGt(x, y) ==
  CASE x.k = "num" -> NumGt(x, y)
    [] x.k = "inf" -> TRUE
    [] OTHER -> FALSE

\* variants of Overconcentrated: an inclusive comparison, a threshold of 25%
OverconcentratedInclusive(data) == ~FloatLt(data.weight, Num(20, 100))
OverconcentratedQuarter(data) == FloatGt(data.weight, Num(25, 100))

\* line 194
Overconcentrated(data) == FloatGt(data.weight, Num(20, 100))

\* lines 193-201
Diversification(cs) ==
  LET hit == SelectSeq(cs, Overconcentrated)
  IN  [i \in 1..Len(hit) |->
         [type |-> "Diversification", symbol |-> hit[i].symbol,
          action |-> "Consider reducing position", severity |-> "medium"]]

\* line 206
MarketReturn(nifty_hist) ==
  RatioMinusOne(nifty_hist[Len(nifty_hist)].close, nifty_hist[1].close)

\* line 208
Underperforming(data, market_return) ==
  /\ FloatLt(data.return, Zero)
  /\ FloatLt(data.return, NumSub(market_return, Num(5, 100)))

\* lines 207-215
PerformanceSuggestions(cs, market_return) ==
  LET hit == SelectSeq(cs, LAMBDA data : Underperforming(data, market_return))
  IN  [i \in 1..Len(hit) |->
         [type |-> "Performance", symbol |-> hit[i].symbol,
          action |-> "Consider replacing or reducing",
          severity |-> IF FloatLt(hit[i].return, Num(-10, 100))
                         THEN "high" ELSE "medium"]]

\* the truth value of a correlation in "corr1 and corr2": None and 0.0 are
\* false, every other float (nan too) is true
Truthy(x) == x.k # "none" /\ ~(x.k = "num" /\ x.n = 0)

\* abs(corr1 - corr2) < 0.2; false when either is nan
CloseCorrelation(c1, c2) ==
  /\ IsNum(c1) /\ IsNum(c2)
  /\ NumLt(NumSub(c1, c2), Num(20, 100))
  /\ NumLt(NumSub(c2, c1), Num(20, 100))

\* lines 221-229: the pairs (i, j), i < j, in the order of the two loops
RECURSIVE HighCorrelationPairs(_, _, _)
HighCorrelationPairs(cs, i, j) ==
  IF i > Len(cs) THEN <<>>
  ELSE IF j > Len(cs) THEN HighCorrelationPairs(cs, i + 1, i + 2)
  ELSE LET corr1 == cs[i].correlation_to_market
           corr2 == cs[j].correlation_to_market
           hit == Truthy(corr1) /\ Truthy(corr2) /\ CloseCorrelation(corr1, corr2)
       IN  (IF hit THEN << <<cs[i].symbol, cs[j].symbol>> >> ELSE <<>>)
             \o HighCorrelationPairs(cs, i, j + 1)

\* line 234: ", ".join(f"{p[0]}/{p[1]}" for p in pairs)
RECURSIVE JoinPairs(_)
JoinPairs(pairs) ==
  IF Len(pairs) = 0 THEN ""
  ELSE pairs[1][1] \o "/" \o pairs[1][2]
         \o (IF Len(pairs) = 1 THEN "" ELSE ", " \o JoinPairs(Tail(pairs)))

\* a variant of CorrelationSuggestions that names every recorded pair (no
\* [:3] slice)
CorrelationSuggestionsAllPairs(cs) ==
  LET pairs == HighCorrelationPairs(cs, 1, 2)
  IN  IF Len(pairs) = 0 THEN <<>>
      ELSE << [type |-> "Correlation",
               symbol |-> JoinPairs(pairs),
               action |-> "Consider replacing one from each pair",
               severity |-> "low"] >>

\* lines 231-238
CorrelationSuggestions(cs) ==
  LET pairs == HighCorrelationPairs(cs, 1, 2)
  IN  IF Len(pairs) = 0 THEN <<>>
      ELSE << [type |-> "Correlation",
               symbol |-> JoinPairs(SubSeq(pairs, 1, Min2(3, Len(pairs)))),
               action |-> "Consider replacing one from each pair",
               severity |-> "low"] >>

\* a variant of PortfolioSuggestions with an inclusive comparison (<= 0.5)
PortfolioSuggestionsInclusive(metrics) ==
  IF FloatLt(metrics.sharpe_ratio, Num(1, 2))
       \/ (IsNum(metrics.sharpe_ratio) /\ NumEq(metrics.sharpe_ratio, Num(1, 2)))
    THEN << [type |-> "Portfolio", symbol |-> "OVERALL",
             action |-> "Consider risk/return optimization",
             severity |-> "medium"] >>
    ELSE <<>>

\* lines 241-248
PortfolioSuggestions(metrics) ==
  IF FloatLt(metrics.sharpe_ratio, Num(1, 2))
    THEN << [type |-> "Portfolio", symbol |-> "OVERALL",
             action |-> "Consider risk/return optimization",
             severity |-> "medium"] >>
    ELSE <<>>

\* the exception generate_optimization_suggestions ends with, or "none":
\* line 203 subscripts nifty_data (TypeError when it is None) and line 206
\* indexes its first and last rows (IndexError when it has none)
SuggestionError(nifty) ==
  IF nifty.isNone THEN "TypeError"
  ELSE IF Len(nifty.hist) = 0 THEN "IndexError"
  ELSE "none"

\* a variant of Suggestions that makes the overall assessment first
SuggestionsPortfolioFirst(metrics, cs, nifty) ==
  PortfolioSuggestions(metrics)
    \o Diversification(cs)
    \o PerformanceSuggestions(cs, MarketReturn(nifty.hist))
    \o CorrelationSuggestions(cs)

\* lines 190-254: the returned list
Suggestions(metrics, cs, nifty) ==
  Diversification(cs)
    \o PerformanceSuggestions(cs, MarketReturn(nifty.hist))
    \o CorrelationSuggestions(cs)
    \o PortfolioSuggestions(metrics)

(***************************************************************************)
(* Inputs of one analysis run.                                             *)
(***************************************************************************)
\* sequences of distinct symbols: the key orders of an ordered dict
KeyOrders == { o \in UNION { [1..n -> Symbols] : n \in 0..Cardinality(Symbols) } :
                 \A i, j \in 1..Len(o) : i # j => o[i] # o[j] }

\* portfolio definitions: positive quantities, a positive average cost for
\* every held symbol
Portfolios ==
  { [holdings |-> [i \in 1..Len(o) |-> [symbol |-> o[i], quantity |-> q[o[i]]]],
     avg_costs |-> [i \in 1..Len(o) |-> [symbol |-> o[i], cost |-> c[o[i]]]]] :
      o \in KeyOrders, q \in [Symbols -> 1..MaxQty], c \in [Symbols -> 1..MaxPrice] }

StockSeries == SeriesOver(1..MaxDate, 1..MaxPrice, MaxDate)

\* the order in which fetch_stock_data asks for the symbols
Listed == <<"A", "B">>

\* price mappings symbol -> history: the listed symbols whose fetch succeeded
StockData ==
  { LET o == SelectSeq(Listed, LAMBDA x : x \in got)
    IN  [i \in 1..Len(o) |-> [symbol |-> o[i], hist |-> h[o[i]]]] :
      got \in SUBSET Symbols, h \in [Symbols -> StockSeries] }

\* ticker_data: what yf.Ticker(symbol).history(...) does for each symbol
\* during the run (lines 57-58): it raises, or it returns a history
Failure == [raises |-> TRUE, hist |-> <<>>]
Success(hist) == [raises |-> FALSE, hist |-> hist]

\* a variant of Fetched with one handler around the whole loop: the first
\* failure ends the loop and the symbols after it are never fetched
FetchedUntilFailure(listed, td) ==
  LET failed == { i \in 1..Len(listed) : td[listed[i]].raises }
  IN  IF failed = {} THEN listed
      ELSE SubSeq(listed, 1, (CHOOSE i \in failed : \A j \in failed : i <= j) - 1)

\* lines 52-67: the symbols that get an entry, in the order of the list; the
\* handler of a failed fetch only prints
Fetched(listed, td) == SelectSeq(listed, LAMBDA symbol : ~td[symbol].raises)

\* lines 51-69: the mapping fetch_stock_data returns
FetchedStockData(listed, td) ==
  LET o == Fetched(listed, td)
  IN  [i \in 1..Len(o) |-> [symbol |-> o[i], hist |-> td[o[i]].hist]]

\* the behaviour of the price source that leaves a given mapping
Responses(sd) ==
  [symbol \in Symbols |->
     IF symbol \in Keys(sd) THEN Success(Entry(sd, symbol).hist) ELSE Failure]

\* a series with a row on each of the dates 1..Len(closes)
Daily(closes) == [t \in 1..Len(closes) |-> [date |-> t, close |-> closes[t]]]

\* DataCollector.fetch_nifty_data: the history of the index, or None when
\* the fetch raised
Benchmark(hist) == [isNone |-> FALSE, hist |-> hist]
NoBenchmark == [isNone |-> TRUE, hist |-> <<>>]
NiftyData ==
  {NoBenchmark} \cup
  { Benchmark(Daily(closes)) :
      closes \in UNION { [1..n -> 1..MaxPrice] : n \in 0..MaxBench } }

\* the example of the specification: one holding of 10 shares bought at 100
ExamplePortfolio ==
  [holdings |-> << [symbol |-> "A", quantity |-> 10] >>,
   avg_costs |-> << [symbol |-> "A", cost |-> 100] >>]
ExampleStockData == << [symbol |-> "A", hist |-> Daily(<<100, 110, 121>>)] >>
ExampleNifty == Benchmark(Daily(<<200, 210, 220>>))

\* a holding whose price does not move over three days
FlatPortfolio ==
  [holdings |-> << [symbol |-> "A", quantity |-> 1] >>,
   avg_costs |-> << [symbol |-> "A", cost |-> 1] >>]
FlatStockData == << [symbol |-> "A", hist |-> Daily(<<1, 1, 1>>)] >>

\* histories of about a month and a half of trading days, for the sample
\* threshold of the correlation: n rows from date start on
MaxShift == 2
MaxExtra == 2
Long(start, n) ==
  [t \in 1..n |-> [date |-> start + t - 1, close |-> 1 + (t % 2)]]
LongSeries ==
  { Long(start, n) : start \in 1..(1 + MaxShift),
                     n \in (MinSamples - 1)..(MinSamples + MaxExtra) }

\* one share bought at cost and now quoted at close: 249/250 - 1 = -0.004
\* and 112/125 - 1 = -0.104 are returns that round(x, 2) changes
OneShare(cost) ==
  [holdings |-> << [symbol |-> "A", quantity |-> 1] >>,
   avg_costs |-> << [symbol |-> "A", cost |-> cost] >>]
BoughtAndQuoted(cost, close) ==
  [portfolio |-> OneShare(cost),
   stock_data |-> << [symbol |-> "A", hist |-> Daily(<<cost, close>>)] >>,
   nifty_data |-> ExampleNifty]

Scenarios ==
  { [portfolio |-> ExamplePortfolio, stock_data |-> ExampleStockData,
     nifty_data |-> ExampleNifty],
    BoughtAndQuoted(250, 249), BoughtAndQuoted(125, 112) }
  \cup { [portfolio |-> FlatPortfolio, stock_data |-> FlatStockData,
          nifty_data |-> n] : n \in NiftyData }
  \cup { [portfolio |-> FlatPortfolio,
          stock_data |-> << [symbol |-> "A", hist |-> h] >>,
          nifty_data |-> Benchmark(n)] : h \in LongSeries, n \in LongSeries }

Inputs ==
  [portfolio : Portfolios, stock_data : StockData, nifty_data : NiftyData]
    \cup Scenarios

(***************************************************************************)
(* The analysis steps of PortfolioAIWorkflow.run_daily_workflow (lines     *)
(* 50-56): performance, contributions, suggestions, on one price mapping.  *)
(* An exception ends the run.                                              *)
(***************************************************************************)
\* portfolio_ai_workflow.py, lines 28-29: no run yet.  A run-log entry is
\* [status, error, start_time]; start_time is the ordinal of the invocation
\* (the clock read of line 33), and returned is the value the last
\* invocation returned, as the sequence of the parts of the string.
NoRun == [status |-> "none", error |-> "none", start_time |-> 0]

Constructed ==
  /\ last_run = NoRun
  /\ run_history = <<>>
  /\ returned = <<>>
  /\ start_time = 0

NoError == [kind |-> "none", in |-> "none"]

Init ==
  /\ \E in \in Inputs :
       /\ portfolio = in.portfolio
       /\ stock_data = in.stock_data
       /\ nifty_data = in.nifty_data
  /\ pc = "performance"
  /\ performance = NoPerformance
  /\ contributions = <<>>
  /\ suggestions = <<>>
  /\ error = NoError
  /\ Constructed
  /\ ticker_data = Responses(stock_data)

Raise(kind, in) == /\ error' = [kind |-> kind, in |-> in]
                   /\ pc' = "failed"

CalculatePortfolioPerformance ==
  /\ pc = "performance"
  /\ IF PerformanceError(stock_data) # "none"
       THEN /\ Raise(PerformanceError(stock_data), "calculate_portfolio_performance")
            /\ UNCHANGED performance
       ELSE \E df \in {PerformanceDf(portfolio, stock_data)} :
            \E volatility \in VolatilityOutcomes(df) :
            \E sharpe_ratio \in
                 SharpeOutcomes(AnnualizedReturn(df[Len(df)].cumulative_return, Len(df)),
                                volatility) :
            \E metrics \in {PerformanceMetrics(df, volatility, sharpe_ratio)} :
              /\ performance' = [df |-> df, metrics |-> metrics]
              /\ pc' = "contributions"
              /\ UNCHANGED error
  /\ UNCHANGED <<portfolio, nifty_data, stock_data, contributions, suggestions,
               ticker_data,
               run_history, last_run, returned, start_time>>

\* failing: the symbols whose financial-metrics fetch raises in this run
AnalyzeStockContributions ==
  /\ pc = "contributions"
  /\ \E failing \in SUBSET Keys(Priced(portfolio.holdings, stock_data)) :
       LET e == ContributionError(portfolio, stock_data, failing)
       IN  IF e # "none"
             THEN /\ Raise(e, "analyze_stock_contributions")
                  /\ UNCHANGED contributions
             ELSE \E corr \in CorrelationChoices(Priced(portfolio.holdings, stock_data),
                                                 stock_data, nifty_data, 1) :
                    /\ contributions' = Contributions(portfolio, stock_data, corr)
                    /\ pc' = "suggestions"
                    /\ UNCHANGED error
  /\ UNCHANGED <<portfolio, nifty_data, stock_data, performance, suggestions,
               ticker_data,
               run_history, last_run, returned, start_time>>

GenerateOptimizationSuggestions ==
  /\ pc = "suggestions"
  /\ IF SuggestionError(nifty_data) # "none"
       THEN /\ Raise(SuggestionError(nifty_data), "generate_optimization_suggestions")
            /\ UNCHANGED suggestions
       ELSE /\ suggestions' = Suggestions(performance.metrics, contributions, nifty_data)
            /\ pc' = "done"
            /\ UNCHANGED error
  /\ UNCHANGED <<portfolio, nifty_data, stock_data, performance, contributions,
               ticker_data,
               run_history, last_run, returned, start_time>>

Next ==
  \/ CalculatePortfolioPerformance
  \/ AnalyzeStockContributions
  \/ GenerateOptimizationSuggestions

Spec == Init /\ [][Next]_vars

\* what a state says about the calls made so far
PerformanceReturned ==
  pc \in {"contributions", "suggestions", "done"}
    \/ (pc = "failed" /\ error.in # "calculate_portfolio_performance")
ContributionsReturned ==
  pc \in {"suggestions", "done"}
    \/ (pc = "failed" /\ error.in = "generate_optimization_suggestions")
SuggestionsReturned == pc = "done"
RaisedIn(f) == pc = "failed" /\ error.in = f

(***************************************************************************)
(* generate_optimization_suggestions on its own: the contribution mapping  *)
(* and the metrics record are drawn from samples around the thresholds of  *)
(* the rules.                                                              *)
(***************************************************************************)
WeightSamples == {Num(1, 10), Num(1, 5), Num(1, 4), Num(3, 4)}
ReturnSamples == {Num(-15, 100), Num(21, 100)}
CorrelationSamples == {None, Zero, Num(10, 100), Num(50, 100)}
SharpeRatios == {NaN, NegInf, Num(-1, 1), Num(1, 4), Num(1, 2)}

\* a record of the shape analyze_stock_contributions stores (lines 162-172)
SampleContribution(symbol, weight, return, correlation) ==
  [symbol |-> symbol,
   quantity |-> 1,
   current_price |-> Num(100, 100),
   current_value |-> Num(100, 100),
   weight |-> weight,
   return |-> return,
   contribution_to_return |-> Round2(NumMul(return, weight)),
   correlation_to_market |-> correlation,
   beta |-> Beta(correlation),
   financial_metrics |-> "info"]

ContributionMappings ==
  { [i \in 1..Len(o) |-> SampleContribution(o[i], w[o[i]], r[o[i]], c[o[i]])] :
      o \in KeyOrders, w \in [Symbols -> WeightSamples],
      r \in [Symbols -> ReturnSamples], c \in [Symbols -> CorrelationSamples] }

SampleMetrics(sharpe_ratio) ==
  [total_return |-> Zero, annualized_return |-> Zero, volatility |-> Pos,
   sharpe_ratio |-> sharpe_ratio, max_drawdown |-> Zero]

InitSuggest ==
  /\ portfolio = FlatPortfolio
  /\ stock_data = <<>>
  /\ nifty_data \in NiftyData
  /\ pc = "suggestions"
  /\ \E sharpe_ratio \in SharpeRatios :
       performance = [df |-> <<>>, metrics |-> SampleMetrics(sharpe_ratio)]
  /\ contributions \in ContributionMappings
  /\ suggestions = <<>>
  /\ error = NoError
  /\ Constructed
  /\ ticker_data = Responses(stock_data)

NextSuggest == GenerateOptimizationSuggestions

SpecSuggest == InitSuggest /\ [][NextSuggest]_vars

(***************************************************************************)
(* The correlation check of generate_optimization_suggestions on mappings  *)
(* of up to four symbols (six pairs, more than the three the suggestion    *)
(* names): weights and returns are fixed below the thresholds of the other *)
(* rules.                                                                  *)
(***************************************************************************)
ClusterSymbols == <<"A", "B", "C", "D">>
ClusterCorrelations == {None, Zero, Num(50, 100), Num(60, 100), Num(90, 100)}

ClusterMappings ==
  { [i \in 1..n |-> SampleContribution(ClusterSymbols[i], Num(1, 10), Num(21, 100), c[i])] :
      n \in 0..Len(ClusterSymbols), c \in [1..Len(ClusterSymbols) -> ClusterCorrelations] }

InitCluster ==
  /\ portfolio = FlatPortfolio
  /\ stock_data = <<>>
  /\ nifty_data = Benchmark(Daily(<<1, 1>>))
  /\ pc = "suggestions"
  /\ performance = [df |-> <<>>, metrics |-> SampleMetrics(Num(1, 2))]
  /\ contributions \in ClusterMappings
  /\ suggestions = <<>>
  /\ error = NoError
  /\ Constructed
  /\ ticker_data = Responses(stock_data)

NextCluster == GenerateOptimizationSuggestions

SpecCluster == InitCluster /\ [][NextCluster]_vars

(***************************************************************************)
(* analyze_stock_contributions on its own.  It reads the last row of each  *)
(* history and, for the correlation, the dates: the histories are those of *)
(* at most one row and the long ones around the sample threshold.          *)
(***************************************************************************)
BriefSeries == SeriesOver(1..MaxDate, 1..MaxPrice, 1)

BriefStockData ==
  { LET o == SelectSeq(Listed, LAMBDA x : x \in got)
    IN  [i \in 1..Len(o) |-> [symbol |-> o[i], hist |-> h[o[i]]]] :
      got \in SUBSET Symbols, h \in [Symbols -> BriefSeries] }

ContributionInputs ==
  [portfolio : Portfolios, stock_data : BriefStockData,
   nifty_data : {NoBenchmark, Benchmark(Daily(<<1, 1>>))}]
    \cup Scenarios

InitContrib ==
  /\ \E in \in ContributionInputs :
       /\ portfolio = in.portfolio
       /\ stock_data = in.stock_data
       /\ nifty_data = in.nifty_data
  /\ pc = "contributions"
  /\ performance = NoPerformance
  /\ contributions = <<>>
  /\ suggestions = <<>>
  /\ error = NoError
  /\ Constructed
  /\ ticker_data = Responses(stock_data)

NextContrib == AnalyzeStockContributions

SpecContrib == InitContrib /\ [][NextContrib]_vars

(***************************************************************************)
(* analyze_stock_contributions on a portfolio definition with the fields   *)
(* sample_portfolio_generator.py writes (lines 4-57): stocks, holdings,    *)
(* company_names, sectors and average_cost, each over the same symbols.    *)
(***************************************************************************)
SamplePortfolios ==
  { [stocks |-> o,
     holdings |-> [i \in 1..Len(o) |-> [symbol |-> o[i], quantity |-> q[o[i]]]],
     company_names |-> [i \in 1..Len(o) |-> [symbol |-> o[i], name |-> o[i]]],
     sectors |-> [i \in 1..Len(o) |-> [symbol |-> o[i], sector |-> "sector"]],
     average_cost |-> [i \in 1..Len(o) |-> [symbol |-> o[i], cost |-> c[o[i]]]]] :
      o \in { k \in KeyOrders : Len(k) > 0 },
      q \in [Symbols -> 1..MaxQty], c \in [Symbols -> 1..MaxPrice] }

InitSample ==
  /\ portfolio \in SamplePortfolios
  /\ stock_data \in BriefStockData
  /\ nifty_data \in {NoBenchmark, Benchmark(Daily(<<1, 1>>))}
  /\ pc = "contributions"
  /\ performance = NoPerformance
  /\ contributions = <<>>
  /\ suggestions = <<>>
  /\ error = NoError
  /\ Constructed
  /\ ticker_data = Responses(stock_data)

NextSample == AnalyzeStockContributions

SpecSample == InitSample /\ [][NextSample]_vars

(***************************************************************************)
(* The run from the price fetch on (run_daily_workflow, lines 40 and       *)
(* 50-53): fetch_stock_data builds the mapping from what the price source  *)
(* answers for each listed symbol, then the performance and the            *)
(* contributions are computed on it.                                       *)
(***************************************************************************)
FetchStockData ==
  /\ pc = "fetch"
  /\ stock_data' = FetchedStockData(Listed, ticker_data)
  /\ pc' = "performance"
  /\ UNCHANGED <<portfolio, nifty_data, performance, contributions, suggestions,
                 error, ticker_data,
               run_history, last_run, returned, start_time>>

\* the average cost plays no part before the contributions: it is 1
UnitCostPortfolios ==
  { p \in Portfolios : \A i \in 1..Len(p.avg_costs) : p.avg_costs[i].cost = 1 }

TickerData == [Symbols -> {Failure} \cup { Success(h) : h \in StockSeries }]

InitFetch ==
  /\ portfolio \in UnitCostPortfolios
  /\ nifty_data = NoBenchmark
  /\ ticker_data \in TickerData
  /\ stock_data = <<>>
  /\ pc = "fetch"
  /\ performance = NoPerformance
  /\ contributions = <<>>
  /\ suggestions = <<>>
  /\ error = NoError
  /\ Constructed

NextFetch ==
  \/ FetchStockData
  \/ CalculatePortfolioPerformance
  \/ AnalyzeStockContributions

SpecFetch == InitFetch /\ [][NextFetch]_vars

(***************************************************************************)
(* PortfolioAIWorkflow.run_daily_workflow (portfolio_ai_workflow.py).      *)
(***************************************************************************)
MaxRuns == 2

\* a method's parameters after self, the first `required` of them without a
\* default value
Signature(params, required) == [params |-> params, required |-> required]

\* news_aggregator.py, lines 18 and 61
FetchAndCategorizeNews == Signature(<<"days">>, 0)
SummarizeNews == Signature(<<"categorized_news">>, 0)
\* llm_connector.py, line 55
GeneratePortfolioDecisions == Signature(<< >>, 0)
\* report_generator.py, line 24
GenerateDailyReport ==
  Signature(<<"performance", "contributions", "suggestions", "news_summary",
              "decision_report">>, 5)

\* a call with `positional` positional arguments and the given keywords
Call(positional, keywords) == [positional |-> positional, keywords |-> keywords]

\* Python's binding of the arguments of a call: no more positional arguments
\* than parameters, every keyword names a parameter not already filled by
\* position, and every parameter without a default is filled.  A call that
\* does not bind raises TypeError.
Binds(signature, call) ==
  /\ call.positional <= Len(signature.params)
  /\ \A k \in call.keywords :
       \E i \in (call.positional + 1)..Len(signature.params) : signature.params[i] = k
  /\ \A i \in 1..signature.required :
       i <= call.positional \/ signature.params[i] \in call.keywords

\* lines 63, 66, 73 and 80: the callee of the first call of stages 3 to 5
\* whose arguments do not bind, or "none"
InvocationError ==
  IF ~Binds(FetchAndCategorizeNews, Call(0, {"news_items"}))
    THEN "fetch_and_categorize_news"
  ELSE IF ~Binds(SummarizeNews, Call(1, {})) THEN "summarize_news"
  ELSE IF ~Binds(GeneratePortfolioDecisions, Call(4, {}))
    THEN "generate_portfolio_decisions"
  ELSE IF ~Binds(GenerateDailyReport, Call(5, {})) THEN "generate_daily_report"
  ELSE "none"

\* lines 88-95 and 114-120
RunLog(status, e) == [status |-> status, error |-> e, start_time |-> start_time]

\* a variant of Logged that keeps the entry of the last run only
LoggedLastOnly(history, run_log) == <<run_log>>

\* lines 98 and 123: self.run_history.append
Logged(history, run_log) == Append(history, run_log)

\* what the price source and the index source answer in a run
WorkflowTickerData ==
  { [symbol \in Symbols |-> Failure],
    Responses(ExampleStockData),
    [symbol \in Symbols |-> IF symbol = "A" THEN Success(<< >>) ELSE Failure],
    [symbol \in Symbols |->
       IF symbol = "A" THEN Success(Daily(<<100, 110, 121>>))
       ELSE Success(Daily(<<50, 55, 60>>))] }
WorkflowNiftyData == {NoBenchmark, ExampleNifty}

\* lines 33-36: an invocation starts; its local variables are unset
RunDailyWorkflow ==
  /\ pc = "idle"
  /\ start_time < MaxRuns
  /\ start_time' = start_time + 1
  /\ ticker_data' \in WorkflowTickerData
  /\ nifty_data' \in WorkflowNiftyData
  /\ stock_data' = << >>
  /\ performance' = NoPerformance
  /\ contributions' = << >>
  /\ suggestions' = << >>
  /\ error' = NoError
  /\ pc' = "fetch"
  /\ UNCHANGED <<portfolio, run_history, last_run, returned>>

\* lines 60-108, after the analysis returned: news processing, decisions,
\* report, run log and return (fetch_news, line 43, leaves nothing in the
\* state before them)
ReportAndLog ==
  /\ pc = "done"
  /\ IF InvocationError # "none"
       THEN /\ Raise("TypeError", InvocationError)
            /\ UNCHANGED <<run_history, last_run, returned>>
       ELSE /\ last_run' = RunLog("success", "none")
            /\ run_history' = Logged(run_history, RunLog("success", "none"))
            /\ returned' = <<"text_summary">>
            /\ pc' = "idle"
            /\ UNCHANGED error
  /\ UNCHANGED <<portfolio, nifty_data, stock_data, performance, contributions,
                 suggestions, ticker_data, start_time>>

\* lines 110-130: the handler of the exception a stage ended with
HandleException ==
  /\ pc = "failed"
  /\ last_run' = RunLog("error", error.kind)
  /\ run_history' = Logged(run_history, RunLog("error", error.kind))
  /\ returned' = <<"ERROR:", "Portfolio AI workflow failed:", error.kind>>
  /\ pc' = "idle"
  /\ UNCHANGED <<portfolio, nifty_data, stock_data, performance, contributions,
                 suggestions, error, ticker_data, start_time>>

WorkflowPortfolios ==
  { ExamplePortfolio,
    [holdings |-> << [symbol |-> "A", quantity |-> 10], [symbol |-> "B", quantity |-> 4] >>,
     avg_costs |-> << [symbol |-> "A", cost |-> 100], [symbol |-> "B", cost |-> 50] >>] }

InitWorkflow ==
  /\ portfolio \in WorkflowPortfolios
  /\ nifty_data = NoBenchmark
  /\ ticker_data = [symbol \in Symbols |-> Failure]
  /\ stock_data = << >>
  /\ pc = "idle"
  /\ performance = NoPerformance
  /\ contributions = << >>
  /\ suggestions = << >>
  /\ error = NoError
  /\ Constructed

NextWorkflow ==
  \/ RunDailyWorkflow
  \/ FetchStockData
  \/ CalculatePortfolioPerformance
  \/ AnalyzeStockContributions
  \/ GenerateOptimizationSuggestions
  \/ ReportAndLog
  \/ HandleException

SpecWorkflow == InitWorkflow /\ [][NextWorkflow]_vars

(***************************************************************************)
(* Properties.                                                             *)
(***************************************************************************)
NumAdd(a, b) == Num(a.n * b.d + b.n * a.d, a.d * b.d)
Abs(x) == IF x < 0 THEN -x ELSE x

RECURSIVE SumOfWeights(_, _)
SumOfWeights(cs, i) ==
  IF i > Len(cs) THEN Zero ELSE NumAdd(cs[i].weight, SumOfWeights(cs, i + 1))

RECURSIVE TotalCostBasis(_, _)
TotalCostBasis(p, i) ==
  IF i > Len(p.holdings) THEN 0
  ELSE p.avg_costs[i].cost * p.holdings[i].quantity + TotalCostBasis(p, i + 1)

\* the number of suggestions of a type about a symbol
Emitted(type, symbol) ==
  Cardinality({ i \in 1..Len(suggestions) :
                  suggestions[i].type = type /\ suggestions[i].symbol = symbol })

\* C1: whenever analyze_stock_contributions returns a non-empty mapping and
\* the total cost basis is positive, the weights of the returned
\* contributions sum to 1.0 within a relative tolerance of 1e-6.
C1_WeightsSumToOne ==
  (ContributionsReturned /\ Len(contributions) > 0 /\ TotalCostBasis(portfolio, 1) > 0)
    => LET sum == SumOfWeights(contributions, 1)
       IN  1000000 * Abs(sum.n - sum.d) <= sum.d

\* C2: with a benchmark series, correlation_to_market and beta of every
\* returned contribution are both null when fewer than 30 return dates are
\* aligned and both non-null when 30 or more are.
C2_CorrelationThreshold ==
  (ContributionsReturned /\ ~nifty_data.isNone)
    => \A i \in 1..Len(contributions) :
         LET data == contributions[i]
             n == AlignedCount(Entry(stock_data, data.symbol).hist, nifty_data.hist)
             isNull == data.correlation_to_market.k = "none" /\ data.beta.k = "none"
             nonNull == data.correlation_to_market.k # "none" /\ data.beta.k # "none"
         IN  IF n < 30 THEN isNull ELSE nonNull

\* C3: calculate_portfolio_performance called with an empty ledger, an empty
\* price mapping or a first series without rows fails with EmptyInputError:
\* it returns no metrics record and fails with no other kind of error.
C3_EmptyInputError ==
  (/\ pc # "performance"
   /\ \/ Len(portfolio.holdings) = 0
      \/ Len(stock_data) = 0
      \/ Len(stock_data[1].hist) = 0)
    => (RaisedIn("calculate_portfolio_performance") /\ error.kind = "EmptyInputError")

\* C4: without a benchmark series (nifty_data is None) the run continues:
\* the returned contributions have null correlation and beta, and
\* generate_optimization_suggestions does not raise.
C4_BenchmarkUnavailable ==
  nifty_data.isNone
    => /\ ContributionsReturned =>
            \A i \in 1..Len(contributions) :
              /\ contributions[i].correlation_to_market.k = "none"
              /\ contributions[i].beta.k = "none"
       /\ ~RaisedIn("generate_optimization_suggestions")

\* C5: a failure of the financial-metrics fetch never makes
\* analyze_stock_contributions fail.
C5_MetricsFailureDoesNotBlock ==
  ~(RaisedIn("analyze_stock_contributions") /\ error.kind = "FetchError")

\* C6: when the volatility is 0, calculate_portfolio_performance returns a
\* record whose sharpe_ratio is nan or infinite, and the following
\* generate_optimization_suggestions does not raise.
C6_ZeroVolatility ==
  (PerformanceReturned /\ Sign(performance.metrics.volatility) = 0)
    => /\ performance.metrics.sharpe_ratio.k \in {"nan", "inf", "-inf"}
       /\ ~RaisedIn("generate_optimization_suggestions")

C8_Example ==
  (/\ portfolio = ExamplePortfolio
   /\ stock_data = ExampleStockData
   /\ nifty_data = ExampleNifty
   /\ SuggestionsReturned)
    => /\ NumEq(contributions[1].return, Num(21, 100))
       /\ NumEq(contributions[1].weight, Num(1, 1))
       /\ NumEq(MarketReturn(nifty_data.hist), Num(10, 100))
       /\ \A i \in 1..Len(suggestions) : suggestions[i].type # "Performance"

\* two holdings of weight 0.25 and 0.75, and the suggestions returned
QuarterAndThreeQuarters(light, heavy) ==
  /\ SuggestionsReturned
  /\ Len(contributions) = 2
  /\ {light, heavy} = {1, 2}
  /\ NumEq(contributions[light].weight, Num(25, 100))
  /\ NumEq(contributions[heavy].weight, Num(75, 100))

\* C9 as stated: for two holdings of weight 0.25 and 0.75 a Diversification
\* suggestion is emitted for the 0.75 holding only.
C9_OnlyTheLargerHolding ==
  \A light, heavy \in 1..2 :
    QuarterAndThreeQuarters(light, heavy)
      => /\ Emitted("Diversification", contributions[heavy].symbol) = 1
         /\ Emitted("Diversification", contributions[light].symbol) = 0

\* C9 as amended: for two holdings of weight 0.25 and 0.75 a Diversification
\* suggestion is emitted for each of them, both weights being above 0.20.
C9_BothHoldings ==
  \A light, heavy \in 1..2 :
    QuarterAndThreeQuarters(light, heavy)
      => /\ Emitted("Diversification", contributions[heavy].symbol) = 1
         /\ Emitted("Diversification", contributions[light].symbol) = 1

C9_Witness == \E light, heavy \in 1..2 : QuarterAndThreeQuarters(light, heavy)

\* C10: the returned list holds exactly one Diversification suggestion, of
\* severity medium, for each symbol whose weight is strictly greater than
\* 0.20 and none for a symbol whose weight is at most 0.20.
C10_Diversification ==
  SuggestionsReturned =>
    /\ \A i \in 1..Len(contributions) :
         LET w == contributions[i].weight
         IN  Emitted("Diversification", contributions[i].symbol)
               = IF 5 * w.n > w.d THEN 1 ELSE 0
    /\ \A i \in 1..Len(suggestions) :
         suggestions[i].type = "Diversification" =>
           /\ suggestions[i].severity = "medium"
           /\ \E j \in 1..Len(contributions) :
                contributions[j].symbol = suggestions[i].symbol

\* a returned list for a holding of weight exactly 0.20 and a heavier one
C10_Witness ==
  /\ SuggestionsReturned
  /\ \E i, j \in 1..Len(contributions) :
       /\ 5 * contributions[i].weight.n = contributions[i].weight.d
       /\ 5 * contributions[j].weight.n > contributions[j].weight.d
       /\ Emitted("Diversification", contributions[i].symbol) = 0
       /\ Emitted("Diversification", contributions[j].symbol) = 1

\* the cost-basis return of a returned contribution, before any rounding:
\* latest close / average cost - 1
TrueReturn(data) ==
  LET hist == Entry(stock_data, data.symbol).hist
      cost == AvgCost(portfolio, data.symbol).n
  IN  Num(hist[Len(hist)].close - cost, cost)

\* the severities of the suggestions of a type about a symbol
Severities(type, symbol) ==
  { suggestions[i].severity : i \in { j \in 1..Len(suggestions) :
      suggestions[j].type = type /\ suggestions[j].symbol = symbol } }

\* C11: for every symbol with a computed cost-basis return r, a Performance
\* suggestion is emitted if and only if r < 0 and r < market_return - 0.05,
\* with severity high exactly when r < -0.10 and medium otherwise, r being
\* the return before rounding.
C11_PerformanceRule ==
  SuggestionsReturned =>
    \A i \in 1..Len(contributions) :
      LET data == contributions[i]
          r == TrueReturn(data)
          market_return == MarketReturn(nifty_data.hist)
          due == /\ NumLt(r, Zero)
                 /\ NumLt(r, NumSub(market_return, Num(5, 100)))
      IN  /\ Emitted("Performance", data.symbol) = IF due THEN 1 ELSE 0
          /\ due => Severities("Performance", data.symbol)
                      = { IF NumLt(r, Num(-10, 100)) THEN "high" ELSE "medium" }

\* C12: every pair of symbols whose correlations are both non-null and differ
\* by less than 0.20 in absolute value is recorded as a clustering pair (the
\* Correlation suggestion names it), a correlation of exactly 0 being
\* non-null; no other pair is recorded.
C12_ClusteringPairs ==
  SuggestionsReturned =>
    \A i, j \in 1..Len(contributions) :
      i < j =>
        LET corr1 == contributions[i].correlation_to_market
            corr2 == contributions[j].correlation_to_market
            due == /\ corr1.k # "none" /\ corr2.k # "none"
                   /\ IsNum(corr1) /\ IsNum(corr2)
                   /\ 5 * Abs(corr1.n * corr2.d - corr2.n * corr1.d) < corr1.d * corr2.d
            pair == contributions[i].symbol \o "/" \o contributions[j].symbol
        IN  Emitted("Correlation", pair) = IF due THEN 1 ELSE 0

\* C13: the returned list holds the Portfolio/OVERALL suggestion if and only
\* if the Sharpe ratio is strictly less than 0.5: none at exactly 0.5 (or
\* nan), exactly one at any value below 0.5, and no other Portfolio entry.
C13_PortfolioSuggestion ==
  SuggestionsReturned =>
    LET sharpe_ratio == performance.metrics.sharpe_ratio
        below == \/ sharpe_ratio.k = "-inf"
                 \/ sharpe_ratio.k = "num" /\ 2 * sharpe_ratio.n < sharpe_ratio.d
    IN  /\ Emitted("Portfolio", "OVERALL") = IF below THEN 1 ELSE 0
        /\ \A i \in 1..Len(suggestions) :
             suggestions[i].type = "Portfolio" =>
               suggestions[i].symbol = "OVERALL" /\ suggestions[i].severity = "medium"

\* a list returned for a Sharpe ratio of exactly 0.5, without the suggestion
C13_Witness ==
  /\ SuggestionsReturned
  /\ performance.metrics.sharpe_ratio = Num(1, 2)
  /\ Emitted("Portfolio", "OVERALL") = 0

\* C14: for a non-empty value series whose entries are all positive,
\* _calculate_max_drawdown returns a value d with -1 <= d <= 0.
C14_MaxDrawdownRange ==
  (/\ PerformanceReturned
   /\ Len(performance.df) > 0
   /\ \A t \in 1..Len(performance.df) : performance.df[t].value > 0)
    => LET d == performance.metrics.max_drawdown
       IN  IsNum(d) /\ d.d > 0 /\ -d.d <= d.n /\ d.n <= 0

\* a positive value series that falls below an earlier value
C14_Witness ==
  /\ PerformanceReturned
  /\ \A t \in 1..Len(performance.df) : performance.df[t].value > 0
  /\ \E t, u \in 1..Len(performance.df) :
       t < u /\ performance.df[u].value < performance.df[t].value
  /\ performance.metrics.max_drawdown.n < 0

\* quantity * close of a holding on a date, 0 without a quote on that date
QuotedValue(h, date) ==
  LET rows == UNION { { <<e, r>> : r \in 1..Len(stock_data[e].hist) } :
                        e \in 1..Len(stock_data) }
      quotes == { q \in rows : /\ stock_data[q[1]].symbol = h.symbol
                               /\ stock_data[q[1]].hist[q[2]].date = date }
  IN  IF quotes = {} THEN 0
      ELSE LET q == CHOOSE q \in quotes : TRUE
           IN  h.quantity * stock_data[q[1]].hist[q[2]].close

RECURSIVE SumOfQuotedValues(_, _)
SumOfQuotedValues(I, date) ==
  IF I = {} THEN 0
  ELSE LET i == CHOOSE i \in I : TRUE
       IN  QuotedValue(portfolio.holdings[i], date) + SumOfQuotedValues(I \ {i}, date)

\* C16: fetch_stock_data does not raise; the mapping it returns holds exactly
\* the listed symbols whose fetch did not fail, each with the fetched history;
\* the analysis then leaves out the missing symbols only: the values sum the
\* quotes of the fetched holdings, the contributions are those of the fetched
\* holdings, and the analysis raises only over a symbol that was fetched or
\* when no symbol was.
C16_FetchIsolatesFailures ==
  /\ ~RaisedIn("fetch_stock_data")
  /\ pc # "fetch" =>
       /\ \A symbol \in Symbols :
            (\E i \in 1..Len(stock_data) : stock_data[i].symbol = symbol)
              <=> ~ticker_data[symbol].raises
       /\ \A i, j \in 1..Len(stock_data) :
            i # j => stock_data[i].symbol # stock_data[j].symbol
       /\ \A i \in 1..Len(stock_data) :
            stock_data[i].hist = ticker_data[stock_data[i].symbol].hist
  /\ PerformanceReturned =>
       \A t \in 1..Len(performance.df) :
         performance.df[t].value =
           SumOfQuotedValues({ i \in 1..Len(portfolio.holdings) :
                                 ~ticker_data[portfolio.holdings[i].symbol].raises },
                             performance.df[t].date)
  /\ ContributionsReturned =>
       { contributions[i].symbol : i \in 1..Len(contributions) }
         = { portfolio.holdings[i].symbol : i \in 1..Len(portfolio.holdings) }
             \cap { symbol \in Symbols : ~ticker_data[symbol].raises }
  /\ RaisedIn("calculate_portfolio_performance") =>
       \/ \A symbol \in Symbols : ticker_data[symbol].raises
       \/ \E symbol \in Symbols :
            ~ticker_data[symbol].raises /\ Len(ticker_data[symbol].hist) = 0
  /\ RaisedIn("analyze_stock_contributions") =>
       \E i \in 1..Len(portfolio.holdings) :
         ~ticker_data[portfolio.holdings[i].symbol].raises

\* both symbols are held, the fetch of the first listed one failed, and the
\* analysis returned the values and the contribution of the other one
C16_Witness ==
  /\ ContributionsReturned
  /\ Len(portfolio.holdings) = 2
  /\ ticker_data[Listed[1]].raises
  /\ ~ticker_data[Listed[2]].raises
  /\ Len(stock_data) = 1
  /\ Len(contributions) = 1
  /\ \E t \in 1..Len(performance.df) : performance.df[t].value > 0

\* C18: the value series has exactly one row per date of the first series of
\* the mapping, in the same strictly increasing order, and the value of a row
\* is the sum of quantity * close over the holdings quoted on its date: a
\* date of another series only never appears, and a holding without a quote
\* on a date adds 0.
C18_ValueSeries ==
  PerformanceReturned =>
    LET first_stock == stock_data[1].hist
        df == performance.df
    IN  /\ Len(df) = Len(first_stock)
        /\ \A t \in 1..Len(df) : df[t].date = first_stock[t].date
        /\ \A t \in 1..(Len(df) - 1) : df[t].date < df[t + 1].date
        /\ \A t \in 1..Len(df) :
             df[t].value = SumOfQuotedValues(1..Len(portfolio.holdings), df[t].date)

\* two held symbols quoted on different dates: the date of the second series
\* is not in the value series and its holding adds nothing to the rows
C18_Witness ==
  /\ PerformanceReturned
  /\ Len(stock_data) = 2
  /\ Len(portfolio.holdings) = 2
  /\ \E r \in 1..Len(stock_data[2].hist) :
       /\ \A t \in 1..Len(performance.df) :
            performance.df[t].date # stock_data[2].hist[r].date
  /\ \E t \in 1..Len(performance.df) :
       /\ \A r \in 1..Len(stock_data[2].hist) :
            stock_data[2].hist[r].date # performance.df[t].date
       /\ performance.df[t].value > 0

\* C15: on a value series with a single row (at least one holding being
\* priced) calculate_portfolio_performance does not raise and divides nothing
\* by zero: it returns a record whose total_return is 0 and whose
\* annualized_return is a defined number.
C15_SingleRow ==
  (/\ pc \notin {"fetch", "performance"}
   /\ Len(stock_data) > 0
   /\ Len(stock_data[1].hist) = 1
   /\ Len(Priced(portfolio.holdings, stock_data)) > 0)
    => /\ PerformanceReturned
       /\ IsNum(performance.metrics.total_return)
       /\ performance.metrics.total_return.n = 0
       /\ IsNum(performance.metrics.annualized_return)

\* C17: for a value series that is monotonically increasing (no value below
\* the one before it), built for a ledger with a priced holding,
\* _calculate_max_drawdown returns exactly 0.
C17_MonotoneSeries ==
  (/\ PerformanceReturned
   /\ Len(Priced(portfolio.holdings, stock_data)) > 0
   /\ \A t \in 1..(Len(performance.df) - 1) :
        performance.df[t].value <= performance.df[t + 1].value)
    => /\ IsNum(performance.metrics.max_drawdown)
       /\ performance.metrics.max_drawdown.n = 0

\* C19: the denominator of every weight is the sum of average cost *
\* quantity over all the holdings of the ledger, the same for every symbol,
\* also when ledger symbols are absent from the price mapping.
C19_TotalCostBasis ==
  ContributionsReturned =>
    \A i \in 1..Len(contributions) :
      LET data == contributions[i]
          hist == Entry(stock_data, data.symbol).hist
          current_value == hist[Len(hist)].close * data.quantity
      IN  /\ IsNum(data.weight)
          /\ data.weight.n * TotalCostBasis(portfolio, 1) = current_value * data.weight.d

\* C20: in every returned record the stored return is latest close /
\* average cost - 1 and the stored contribution_to_return is the stored
\* return times the stored weight.
C20_StoredReturn ==
  ContributionsReturned =>
    \A i \in 1..Len(contributions) :
      LET data == contributions[i]
      IN  /\ IsNum(data.return) /\ IsNum(data.weight)
          /\ IsNum(data.contribution_to_return)
          /\ NumEq(data.return, TrueReturn(data))
          /\ NumEq(data.contribution_to_return, NumMul(data.return, data.weight))

\* the rank of a category in the order of the rules
Category(type) ==
  CASE type = "Diversification" -> 1
    [] type = "Performance" -> 2
    [] type = "Correlation" -> 3
    [] type = "Portfolio" -> 4

\* the place of a symbol in the contribution mapping
LedgerIndex(symbol) ==
  CHOOSE i \in 1..Len(contributions) : contributions[i].symbol = symbol

IsPrefix(s, t) == Len(s) <= Len(t) /\ SubSeq(t, 1, Len(s)) = s

C21_Ordered ==
  SuggestionsReturned =>
    /\ \A a, b \in 1..Len(suggestions) :
         a < b =>
           /\ Category(suggestions[a].type) <= Category(suggestions[b].type)
           /\ (/\ suggestions[a].type = suggestions[b].type
               /\ suggestions[a].type \in {"Diversification", "Performance"})
                => LedgerIndex(suggestions[a].symbol) < LedgerIndex(suggestions[b].symbol)
    /\ \A type \in {"Correlation", "Portfolio"} :
         Cardinality({ i \in 1..Len(suggestions) : suggestions[i].type = type }) <= 1

\* C21: the returned list is ordered by category (Diversification, then
\* Performance, then at most one Correlation, then at most one Portfolio
\* entry), within Diversification and within Performance by the iteration
\* order of the contribution mapping, and during the pass the list only
\* grows at its end.
C21_CategoryOrder ==
  []C21_Ordered /\ [][IsPrefix(suggestions, suggestions')]_vars

\* a returned list with two entries of each per-symbol category and one of
\* each of the others
C21_Witness ==
  /\ SuggestionsReturned
  /\ Len(suggestions) = 6
  /\ \A type \in {"Diversification", "Performance"} :
       Cardinality({ i \in 1..Len(suggestions) : suggestions[i].type = type }) = 2
  /\ suggestions[5].type = "Correlation"
  /\ suggestions[6].type = "Portfolio"

\* the pairs (i, j), i < j, of contributions the pass records: both
\* correlations pass the test of line 228 and differ by less than 0.20
RecordedPairs ==
  { p \in (1..Len(contributions)) \X (1..Len(contributions)) :
      /\ p[1] < p[2]
      /\ LET corr1 == contributions[p[1]].correlation_to_market
             corr2 == contributions[p[2]].correlation_to_market
         IN  /\ IsNum(corr1) /\ corr1.n # 0
             /\ IsNum(corr2) /\ corr2.n # 0
             /\ 5 * Abs(corr1.n * corr2.d - corr2.n * corr1.d) < corr1.d * corr2.d }

\* p comes before q when the pairs are enumerated by i, then by j
PairBefore(p, q) == p[1] < q[1] \/ (p[1] = q[1] /\ p[2] < q[2])

\* the k-th recorded pair: the one with k - 1 recorded pairs before it
NthRecordedPair(k) ==
  CHOOSE p \in RecordedPairs :
    Cardinality({ q \in RecordedPairs : PairBefore(q, p) }) = k - 1

PairName(p) == contributions[p[1]].symbol \o "/" \o contributions[p[2]].symbol

\* the names of the first pairs, as the subject lists them
FirstPairsNamed ==
  LET n == Cardinality(RecordedPairs)
  IN  CASE n = 1 -> PairName(NthRecordedPair(1))
        [] n = 2 -> PairName(NthRecordedPair(1)) \o ", " \o PairName(NthRecordedPair(2))
        [] OTHER -> PairName(NthRecordedPair(1)) \o ", " \o PairName(NthRecordedPair(2))
                      \o ", " \o PairName(NthRecordedPair(3))

\* C22: the returned list holds exactly one Correlation suggestion, of
\* severity low, when at least one clustering pair was recorded and none
\* otherwise; its subject names the first min(3, number of pairs) pairs in
\* the order (i, j), i < j, by i then j.
C22_CorrelationSuggestion ==
  SuggestionsReturned =>
    LET entries == { i \in 1..Len(suggestions) : suggestions[i].type = "Correlation" }
    IN  IF RecordedPairs = {} THEN entries = {}
        ELSE /\ Cardinality(entries) = 1
             /\ \A i \in entries :
                  /\ suggestions[i].severity = "low"
                  /\ suggestions[i].symbol = FirstPairsNamed

\* a returned list for a mapping with more than three recorded pairs
C22_Witness ==
  /\ SuggestionsReturned
  /\ Cardinality(RecordedPairs) > 3
  /\ \E i \in 1..Len(suggestions) :
       suggestions[i].type = "Correlation" /\ suggestions[i].symbol = FirstPairsNamed

\* two floats are the same value
SameFloat(x, y) == IF IsNum(x) /\ IsNum(y) THEN NumEq(x, y) ELSE x.k = y.k

\* a / b - 1 for integers a >= 0 and b > 0
Growth(a, b) == Num(a - b, b)

ReturnSeries ==
  LET df == performance.df
  IN  /\ df[1].daily_return.k = "nan"
      /\ \A t \in 2..Len(df) :
           df[t - 1].value > 0 =>
             SameFloat(df[t].daily_return, Growth(df[t].value, df[t - 1].value))
      /\ \A t \in 1..Len(df) :
           df[1].value > 0 =>
             SameFloat(df[t].cumulative_return, Growth(df[t].value, df[1].value))
      /\ SameFloat(df[1].cumulative_return, Zero)
      /\ SameFloat(performance.metrics.total_return, df[Len(df)].cumulative_return)

\* C23: in the series returned by calculate_portfolio_performance (for a
\* ledger with a priced holding) the first row has no daily return, every
\* later row's daily return is value[t]/value[t-1] - 1, the cumulative
\* return of row t is value[t]/value[0] - 1, which is 0 at the first row,
\* and total_return is the cumulative return of the last row.
C23_ReturnSeries ==
  (PerformanceReturned /\ Len(Priced(portfolio.holdings, stock_data)) > 0)
    => ReturnSeries

\* the same statement for the series whose first value is positive
C23_PositiveStart ==
  (PerformanceReturned /\ performance.df[1].value > 0) => ReturnSeries

\* the run that just returned fetched every listed symbol and the index, and
\* its analysis stage returned
AnalysedRun ==
  /\ pc = "idle"
  /\ start_time > 0
  /\ \A symbol \in Symbols : ~ticker_data[symbol].raises
  /\ ~nifty_data.isNone
  /\ error.in \notin {"calculate_portfolio_performance",
                      "analyze_stock_contributions",
                      "generate_optimization_suggestions"}

\* C24: a run of run_daily_workflow in which the price and index fetches
\* succeed and the analysis returns goes on through news processing,
\* decisions and report, and ends with a run-log entry of status "success"
\* and the report's text summary as return value: no call of the workflow
\* into another component fails.
C24_SuccessfulRun ==
  AnalysedRun =>
    /\ error = NoError
    /\ last_run.status = "success"
    /\ returned = <<"text_summary">>

\* what every state of a sequence of invocations satisfies
RunHistoryKept ==
  /\ Len(run_history) = (IF pc = "idle" THEN start_time ELSE start_time - 1)
  /\ \A i \in 1..Len(run_history) :
       /\ run_history[i].status \in {"success", "error"}
       /\ run_history[i].start_time = i
  /\ IF Len(run_history) = 0 THEN last_run = NoRun
     ELSE last_run = run_history[Len(run_history)]
  /\ (pc = "idle" /\ error # NoError) =>
       /\ last_run.status = "error"
       /\ Len(returned) > 0
       /\ returned[1] = "ERROR:"

\* C25: after any sequence of invocations of run_daily_workflow, whatever
\* stage fails in each: an exception raised by a stage is handled and the
\* invocation returns, run_history has one entry per invocation (status
\* success or error, in invocation order, earlier entries unchanged),
\* last_run is null iff run_history is empty and otherwise is its last entry,
\* and a failing run returns a string that starts with "ERROR:".
C25_RunHistory ==
  /\ []RunHistoryKept
  /\ [][/\ IsPrefix(run_history, run_history')
        /\ Len(run_history') <= Len(run_history) + 1
        /\ (pc = "failed" => pc' = "idle")]_vars

\* two invocations returned after failing in different stages
C25_Witness ==
  /\ pc = "idle"
  /\ Len(run_history) = 2
  /\ run_history[1].status = "error"
  /\ run_history[2].status = "error"
  /\ run_history[1].error # run_history[2].error
  /\ last_run = run_history[2]
  /\ returned[1] = "ERROR:"

\* C26: for a portfolio definition with the fields the sample portfolio
\* generator writes, analyze_stock_contributions finds the average cost of
\* every held symbol present in the price data: it does not fail on a
\* missing cost-basis field (KeyError on the field, TypeError on a missing
\* cost).
C26_SampleCostBasis ==
  (/\ "average_cost" \in DOMAIN portfolio
   /\ Len(Priced(portfolio.holdings, stock_data)) > 0
   /\ pc # "contributions")
    => ~(/\ RaisedIn("analyze_stock_contributions")
         /\ error.kind \in {"KeyError", "TypeError"})

====
